---- MODULE Spec2Model ----
(***************************************************************************)
(* Lead prospector (src/app.py): the lead table and its operations, the    *)
(* "Search & Extract" run (provider queries, domain deduplication, the     *)
(* per-site page prober, the contact extractor, upsert_lead) and the pure  *)
(* URL helpers domain_of / looks_like_business_site.                       *)
(*                                                                         *)
(* Python strings are sequences of one-character strings, so that lower(), *)
(* strip(), split(), replace(), the "in" / endswith tests, urlparse and    *)
(* EMAIL_RE are computed on characters and not assumed.                    *)
(***************************************************************************)
EXTENDS Integers, Sequences, FiniteSets, TLC

VARIABLES
    leads,          \* st.session_state.leads: rows <<idx, Email, Website, Source>> in table order
    skip_generic,   \* st.session_state["skip_generic"]
    verify_mx,      \* st.session_state["verify_mx"]
    pc,             \* where the script is: "idle" or inside the probe loop of a search run
    cfg,            \* the run's widget values: UNLOCKER_BASE / UNLOCKER_KEY set?, rate_delay
    urls,           \* the run's deduplicated candidate sites
    j,              \* probe loop: index of the site being probed (1-based)
    p,              \* probe loop: index into PATHS of the next page of site j
    added,          \* the run's "added" counter
    site,           \* history of the site being probed: requests issued, pages requested, page that yielded
    last,           \* history: the last I/O event of the run and the outcome of the last page
    fx              \* harness for the pure helpers: inputs drawn in InitUrl and the results computed

vars == << leads, skip_generic, verify_mx, pc, cfg, urls, j, p, added, site, last, fx >>

----------------------------------------------------------------------------
(* Characters and Python str methods                                       *)

LowerLetters ==
    << "a","b","c","d","e","f","g","h","i","j","k","l","m",
       "n","o","p","q","r","s","t","u","v","w","x","y","z" >>

UpperLetters ==
    << "A","B","C","D","E","F","G","H","I","J","K","L","M",
       "N","O","P","Q","R","S","T","U","V","W","X","Y","Z" >>

Digits == { "0","1","2","3","4","5","6","7","8","9" }

Range(f) == { f[i] : i \in DOMAIN f }

Letters == Range(LowerLetters) \cup Range(UpperLetters)

Whitespace == { " ", "\t", "\n" }

\* None and the empty string are the falsy values the code tests with "if not x".
None == << "<None>" >>

Truthy(x) == x /= None /\ x /= << >>

LowerChar(c) ==
    IF c \in Range(UpperLetters)
    THEN LowerLetters[CHOOSE i \in DOMAIN UpperLetters : UpperLetters[i] = c]
    ELSE c

Lower(s) == [ i \in 1..Len(s) |-> LowerChar(s[i]) ]

RECURSIVE LStrip(_)
LStrip(s) == IF s /= << >> /\ Head(s) \in Whitespace THEN LStrip(Tail(s)) ELSE s

RECURSIVE RStrip(_)
RStrip(s) ==
    IF s /= << >> /\ s[Len(s)] \in Whitespace THEN RStrip(SubSeq(s, 1, Len(s) - 1)) ELSE s

Strip(s) == RStrip(LStrip(s))

StartsWith(s, pre) == Len(s) >= Len(pre) /\ SubSeq(s, 1, Len(pre)) = pre

EndsWith(s, suf) == Len(s) >= Len(suf) /\ SubSeq(s, Len(s) - Len(suf) + 1, Len(s)) = suf

\* Python "sub in s"
Contains(s, sub) ==
    \E i \in 1..(Len(s) - Len(sub) + 1) : SubSeq(s, i, i + Len(sub) - 1) = sub

\* s.replace(sub, "")
RECURSIVE RemoveAll(_, _)
RemoveAll(s, sub) ==
    IF Len(s) < Len(sub) \/ sub = << >> THEN s
    ELSE IF StartsWith(s, sub) THEN RemoveAll(SubSeq(s, Len(sub) + 1, Len(s)), sub)
    ELSE << Head(s) >> \o RemoveAll(Tail(s), sub)

\* index of the first character of s at or after position i that is in cs,
\* Len(s)+1 when there is none
RECURSIVE FirstFrom(_, _, _)
FirstFrom(s, i, cs) ==
    IF i > Len(s) THEN Len(s) + 1
    ELSE IF s[i] \in cs THEN i
    ELSE FirstFrom(s, i + 1, cs)

FirstOf(s, cs) == FirstFrom(s, 1, cs)

\* s.split(c)[0]
BeforeChar(s, c) == SubSeq(s, 1, FirstOf(s, {c}) - 1)

\* s.split(c, 1)[1]; the code's IndexError / ValueError when c is absent is None here
AfterChar(s, c) ==
    IF c \in Range(s) THEN SubSeq(s, FirstOf(s, {c}) + 1, Len(s)) ELSE None

RECURSIVE Concat(_)
Concat(ss) == IF ss = << >> THEN << >> ELSE Head(ss) \o Concat(Tail(ss))

Take(s, n) == SubSeq(s, 1, IF n < Len(s) THEN n ELSE Len(s))

----------------------------------------------------------------------------
(* Program constants                                                       *)

SOCIAL_AGG_DOMAINS ==
    << <<"f","a","c","e","b","o","o","k",".","c","o","m">>,
       <<"i","n","s","t","a","g","r","a","m",".","c","o","m">>,
       <<"l","i","n","k","e","d","i","n",".","c","o","m">>,
       <<"t","w","i","t","t","e","r",".","c","o","m">>,
       <<"x",".","c","o","m">>,
       <<"y","o","u","t","u","b","e",".","c","o","m">>,
       <<"y","e","l","p",".","c","o","m">>,
       <<"a","n","g","i","e","s","l","i","s","t",".","c","o","m">>,
       <<"h","o","u","z","z",".","c","o","m">>,
       <<"p","i","n","t","e","r","e","s","t",".","c","o","m">>,
       <<"t","i","k","t","o","k",".","c","o","m">>,
       <<"h","o","m","e","a","d","v","i","s","o","r",".","c","o","m">>,
       <<"t","h","u","m","b","t","a","c","k",".","c","o","m">>,
       <<"p","o","r","c","h",".","c","o","m">>,
       <<"b","b","b",".","o","r","g">> >>

EXCLUDE_DOMAINS ==
    << <<"g","o","o","g","l","e",".","c","o","m">>,
       <<"m","a","p","s",".","g","o","o","g","l","e",".","c","o","m">>,
       <<"d","u","c","k","d","u","c","k","g","o",".","c","o","m">>,
       <<"b","i","n","g",".","c","o","m">>,
       <<"s","u","p","p","o","r","t",".","g","o","o","g","l","e",".","c","o","m">>,
       <<"d","e","v","e","l","o","p","e","r","s",".","g","o","o","g","l","e",".","c","o","m">>,
       <<"w","e","b","c","a","c","h","e",".","g","o","o","g","l","e","u","s","e","r","c","o","n","t","e","n","t",".","c","o","m">> >>

BUSINESS_TLDS ==
    << <<".","c","o","m">>,
       <<".","n","e","t">>,
       <<".","o","r","g">>,
       <<".","i","o">>,
       <<".","c","o">>,
       <<".","u","s">> >>

GENERIC_PREFIXES ==
    << <<"i","n","f","o">>,
       <<"c","o","n","t","a","c","t">>,
       <<"s","a","l","e","s">>,
       <<"h","e","l","l","o">>,
       <<"a","d","m","i","n">>,
       <<"s","u","p","p","o","r","t">>,
       <<"o","f","f","i","c","e">>,
       <<"t","e","a","m">> >>

PATHS == << "", "/contact", "/contact-us", "/contactus", "/about", "/team", "/contacts" >>

----------------------------------------------------------------------------
(* URL helpers                                                             *)

SchemeChars == Letters \cup Digits \cup { "+", "-", "." }

\* urllib.parse.urlsplit: a leading scheme is split off at the first ":" when every
\* character before it is a scheme character and the first one a letter.
SchemeEnd(u) ==
    LET i == FirstOf(u, {":"})
    IN  IF i > 1 /\ i <= Len(u) /\ u[1] \in Letters /\ \A k \in 1..(i - 1) : u[k] \in SchemeChars
        THEN i ELSE 0

\* urlparse(u).netloc: what follows "//" up to the first "/", "?" or "#"; a netloc
\* with an unbalanced bracket makes urlsplit raise ValueError (Raised here).
Raised == << "<ValueError>" >>

Netloc(u) ==
    LET rest == SubSeq(u, SchemeEnd(u) + 1, Len(u))
    IN  IF StartsWith(rest, << "/", "/" >>)
        THEN LET tail == SubSeq(rest, 3, Len(rest))
                 loc  == SubSeq(tail, 1, FirstOf(tail, { "/", "?", "#" }) - 1)
             IN  IF ("[" \in Range(loc)) /= ("]" \in Range(loc)) THEN Raised ELSE loc
        ELSE << >>

WwwDot == << "w", "w", "w", "." >>

\* A bug to compare with: the host is returned without removing the "www." label.
domain_of_keep_www(u) ==
    LET n == Netloc(u) IN IF n = Raised THEN << >> ELSE Lower(n)

domain_of(u) ==
    LET n == Netloc(u)
    IN  IF n = Raised THEN << >>
        ELSE LET d == Lower(n)
             IN  IF StartsWith(d, WwwDot) THEN SubSeq(d, 5, Len(d)) ELSE d

Excluded(d) == \E i \in DOMAIN EXCLUDE_DOMAINS : EndsWith(d, EXCLUDE_DOMAINS[i]) \/ d = EXCLUDE_DOMAINS[i]

looks_like_business_site(u) ==
    LET d == domain_of(u)
    IN  IF d = << >> THEN FALSE
        ELSE IF \E i \in DOMAIN SOCIAL_AGG_DOMAINS : Contains(d, SOCIAL_AGG_DOMAINS[i]) THEN FALSE
        ELSE IF Excluded(d) THEN FALSE
        ELSE IF \E i \in DOMAIN BUSINESS_TLDS : EndsWith(d, BUSINESS_TLDS[i]) THEN TRUE
        ELSE FALSE

\* search_bing_api / search_serp_api, last line: classifier filter, then [:count]
SearchFilter(raw, count) == Take(SelectSeq(raw, looks_like_business_site), count)

\* The dict by_domain of the Search & Extract handler, as the list of its values in
\* insertion order: a URL is added when its key is new and not excluded.
DedupKey(u) == IF domain_of(u) /= << >> THEN domain_of(u) ELSE u

RECURSIVE ByDomain(_, _)
ByDomain(all_urls, kept) ==
    IF all_urls = << >> THEN kept
    ELSE LET u == Head(all_urls)
             d == DedupKey(u)
         IN  IF (\A i \in DOMAIN kept : DedupKey(kept[i]) /= d) /\ ~ Excluded(d)
             THEN ByDomain(Tail(all_urls), Append(kept, u))
             ELSE ByDomain(Tail(all_urls), kept)

\* A bug to compare with: a later URL of a domain replaces the one kept for it.
RECURSIVE ByDomainLastWins(_, _)
ByDomainLastWins(all_urls, kept) ==
    IF all_urls = << >> THEN kept
    ELSE LET u == Head(all_urls)
             d == DedupKey(u)
         IN  IF Excluded(d) THEN ByDomainLastWins(Tail(all_urls), kept)
             ELSE IF \E i \in DOMAIN kept : DedupKey(kept[i]) = d
             THEN ByDomainLastWins(Tail(all_urls),
                     [ i \in DOMAIN kept |-> IF DedupKey(kept[i]) = d THEN u ELSE kept[i] ])
             ELSE ByDomainLastWins(Tail(all_urls), Append(kept, u))

DedupLastWins(all_urls, max_sites) == Take(ByDomainLastWins(all_urls, << >>), max_sites)

Dedup(all_urls, max_sites) == Take(ByDomain(all_urls, << >>), max_sites)

----------------------------------------------------------------------------
(* EMAIL_RE, is_generic_email, the contact extractor                       *)

Alnum == Letters \cup Digits

WordChars == Alnum \cup { "_" }

LocalChars == Alnum \cup { ".", "_", "%", "+", "-" }

DomainChars == Alnum \cup { ".", "-" }

\* \b between positions i and i+1 of s
Boundary(s, i) ==
    (i >= 1 /\ i <= Len(s) /\ s[i] \in WordChars)
        /= (i + 1 >= 1 /\ i + 1 <= Len(s) /\ s[i + 1] \in WordChars)

\* last position of the run of characters of cs that starts at position i
\* (i-1 when the run is empty)
RECURSIVE RunEnd(_, _, _)
RunEnd(s, i, cs) ==
    IF i >= 1 /\ i <= Len(s) /\ s[i] \in cs THEN RunEnd(s, i + 1, cs) ELSE i - 1

\* EMAIL_RE = \b[A-Za-z0-9._%+-]+@[A-Za-z0-9.-]+\.[A-Za-z]{2,}\b tried at position
\* start: the index of the last character of the match, 0 when there is none.
\* The local part runs to the first "@"; the regex engine then takes the longest
\* domain it can, i.e. the last "." that is followed by two or more letters and a
\* word boundary.
EmailEndAt(s, start) ==
    LET a    == RunEnd(s, start, LocalChars)            \* last character of the local part
        dend == RunEnd(s, a + 2, DomainChars)           \* last character [A-Za-z0-9.-] can reach
        Dots == { d \in (a + 3)..dend :
                    /\ s[d] = "."
                    /\ RunEnd(s, d + 1, Letters) >= d + 2
                    /\ Boundary(s, RunEnd(s, d + 1, Letters)) }
    IN  IF /\ start >= 1 /\ start <= Len(s)
           /\ Boundary(s, start - 1)
           /\ a >= start
           /\ a + 1 <= Len(s) /\ s[a + 1] = "@"
           /\ Dots /= {}
        THEN LET d == CHOOSE d \in Dots : \A e \in Dots : e <= d
             IN  RunEnd(s, d + 1, Letters)
        ELSE 0

\* EMAIL_RE.match(s): a match that starts at the first character (a prefix match)
EmailReMatch(s) == EmailEndAt(s, 1) > 0

\* EMAIL_RE.findall(text): the matches from left to right, not overlapping
RECURSIVE FindAllFrom(_, _)
FindAllFrom(text, from) ==
    IF from > Len(text) THEN << >>
    ELSE LET e == EmailEndAt(text, from)
         IN  IF e > 0
             THEN << SubSeq(text, from, e) >> \o FindAllFrom(text, e + 1)
             ELSE FindAllFrom(text, from + 1)

EmailFindAll(text) == FindAllFrom(text, 1)

\* A bug to compare with: the local part is compared as written.
is_generic_email_case_sensitive(email) ==
    IF "@" \in Range(email)
    THEN BeforeChar(email, "@") \in Range(GENERIC_PREFIXES)
    ELSE FALSE

\* is_generic_email(email); an email without "@" raises inside the try: False
is_generic_email(email) ==
    IF "@" \in Range(email)
    THEN Lower(BeforeChar(email, "@")) \in Range(GENERIC_PREFIXES)
    ELSE FALSE

\* _first_non_empty(*vals)
first_non_empty(vals) ==
    IF \E i \in DOMAIN vals : Truthy(vals[i])
    THEN vals[CHOOSE i \in DOMAIN vals : Truthy(vals[i]) /\ \A k \in 1..(i - 1) : ~ Truthy(vals[k])]
    ELSE None

MailtoColon == << "m", "a", "i", "l", "t", "o", ":" >>

\* A page as BeautifulSoup hands it to the extractor: the href values of its
\* anchors in document order and its visible text.  html is None (no body was
\* obtained), "" (an empty body) or a page.
HtmlNone == [ body |-> "none", hrefs |-> << >>, text |-> << >> ]

HtmlEmpty == [ body |-> "empty", hrefs |-> << >>, text |-> << >> ]

Page(hrefs, text) == [ body |-> "page", hrefs |-> hrefs, text |-> text ]

HtmlFalsy(html) == html.body /= "page"

\* the list "mailto" of extract_company_info_from_html: select a[href^="mailto:"],
\* drop "mailto:", strip, keep what EMAIL_RE.match accepts, cut at the first "?"
MailtoEmails(hrefs) ==
    LET IsMailto(h) == StartsWith(h, MailtoColon)
        Clean(h)    == Strip(RemoveAll(h, MailtoColon))
        links       == SelectSeq(hrefs, IsMailto)
        cleaned     == [ i \in DOMAIN links |-> Clean(links[i]) ]
        matching    == SelectSeq(cleaned, EmailReMatch)
    IN  [ i \in DOMAIN matching |-> BeforeChar(matching[i], "?") ]

\* extract_company_info_from_html(html)[1], the email
extract_company_info_from_html(html) ==
    IF HtmlFalsy(html) THEN None
    ELSE LET email == first_non_empty(MailtoEmails(html.hrefs))
         IN  IF ~ Truthy(email) THEN first_non_empty(EmailFindAll(html.text)) ELSE email

\* The bodies the web serves in this model
DirectFail == [ body |-> "fail", hrefs |-> << >>, text |-> << >> ]

\* page with no address
PageNoContact == Page(<< <<"/","a","b","o","u","t">> >>, <<"c","a","l","l"," ","u","s">>)

\* <a href="mailto:Sales@Acme.com">
PageMailto == Page(<< <<"m","a","i","l","t","o",":","S","a","l","e","s","@","A","c","m","e",".","c","o","m">> >>, << >>)

\* <a href="mailto:bob@acme.com ?subject=hi">
PageMailtoSubject == Page(<< <<"m","a","i","l","t","o",":","b","o","b","@","a","c","m","e",".","c","o","m"," ","?","s","u","b","j","e","c","t","=","h","i">> >>, << >>)

\* <a href="mailto:bob@acme.com,amy@acme.com">
PageMailtoTwo == Page(<< <<"m","a","i","l","t","o",":","b","o","b","@","a","c","m","e",".","c","o","m",",","a","m","y","@","a","c","m","e",".","c","o","m">> >>, << >>)

\* no mail link, an address in the visible text
PageText == Page(<< >>, <<"w","r","i","t","e"," ","a","m","y","@","z","e","n",".","i","o",".">>)

Bodies == { HtmlEmpty, PageNoContact, PageMailto, PageMailtoSubject, PageMailtoTwo, PageText }

UnlockerOutcomes == { HtmlNone } \cup Bodies

DirectOutcomes == { DirectFail } \cup Bodies

\* The extractor's answer for each of these bodies, computed once
ExtractedEmails == [ b \in Bodies |-> extract_company_info_from_html(b) ] @@ << >>

ExtractEmail(html) ==
    IF html \in DOMAIN ExtractedEmails THEN ExtractedEmails[html]
    ELSE extract_company_info_from_html(html)

----------------------------------------------------------------------------
(* The lead table and upsert_lead                                          *)

\* A row of the DataFrame: its index label and the cells the operations decide on.
Row(idx, email, website, source) ==
    [ idx |-> idx, Email |-> email, Website |-> website, Source |-> source ]

Cells(r) == << r.Email, r.Website, r.Source >>

\* set(df["Email"].dropna().str.lower())
Lowers(df) == { Lower(df[i].Email) : i \in DOMAIN df }

\* df.loc[len(df)] = {...}: label len(df) is assigned; pandas overwrites the row
\* that carries this label when there is one and appends a row otherwise.
LocSet(df, email, website, source) ==
    LET n == Len(df)
    IN  IF \E i \in DOMAIN df : df[i].idx = n
        THEN [ i \in DOMAIN df |-> IF df[i].idx = n THEN Row(n, email, website, source) ELSE df[i] ]
        ELSE Append(df, Row(n, email, website, source))

\* verify_email_mx: mx is what the DNS-over-HTTPS lookup of the domain does,
\* "answer" (MX records), "none" (resolved, no Answer) or "error" (status not ok,
\* exception).  An email without "@" raises inside the try and is accepted.
MxOutcomes == { "answer", "none", "error" }

\* A bug to compare with: a lookup that fails counts as "no MX record".
verify_email_mx_fail_closed(email, mx) ==
    IF AfterChar(email, "@") = None THEN TRUE
    ELSE mx = "answer"

verify_email_mx(email, mx) ==
    IF AfterChar(email, "@") = None THEN TRUE
    ELSE IF mx = "error" THEN TRUE
    ELSE mx = "answer"

\* upsert_lead(name, email, website, phone, source) on the table df with the
\* filters sg (skip_generic) and vm (verify_mx); the result is the new table.
upsert_lead(df, sg, vm, email, website, source, mx) ==
    IF ~ Truthy(email) THEN df
    ELSE IF sg /\ is_generic_email(email) THEN df
    ELSE IF vm /\ ~ verify_email_mx(email, mx) THEN df
    ELSE IF Lower(email) \in Lowers(df) THEN df
    ELSE LocSet(df, Strip(email), website, source)

\* The checks the form handlers make before they insert (manual add, bulk paste,
\* grid, CSV import): the cell is stripped, then validated with EMAIL_RE.match.
FormAccepts(email, sg, vm, mx) ==
    /\ Truthy(email)
    /\ EmailReMatch(email)
    /\ ~ (sg /\ is_generic_email(email))
    /\ ~ (vm /\ ~ verify_email_mx(email, mx))

\* "Add lead" (single)
ManualAddResult(df, sg, vm, email_in, mx) ==
    LET email == Strip(email_in)
    IN  IF ~ FormAccepts(email, sg, vm, mx) THEN df
        ELSE IF Lower(email) \in Lowers(df) THEN df
        ELSE upsert_lead(df, sg, vm, email, << >>, "manual", mx)

\* "Add pasted leads": one email cell and one lookup outcome per pasted line;
\* "existing" is Lowers(df) of the table as the loop goes on.
RECURSIVE BulkPasteResult(_, _, _, _, _)
BulkPasteResult(df, sg, vm, cells, mxs) ==
    IF cells = << >> THEN df
    ELSE LET email == Strip(Head(cells))
             next  == IF ~ FormAccepts(email, sg, vm, Head(mxs)) THEN df
                      ELSE IF Lower(email) \in Lowers(df) THEN df
                      ELSE upsert_lead(df, sg, vm, email, << >>, "manual", Head(mxs))
         IN  BulkPasteResult(next, sg, vm, Tail(cells), Tail(mxs))

\* CSV import: the loop over the uploaded rows; existing starts as the lowered
\* emails of the table and grows with every insert.
RECURSIVE CsvImportLoop(_, _, _, _, _, _)
CsvImportLoop(df, existing, sg, vm, cells, mxs) ==
    IF cells = << >> THEN df
    ELSE LET email == Strip(Head(cells))
         IN  IF ~ FormAccepts(email, sg, vm, Head(mxs)) \/ Lower(email) \in existing
             THEN CsvImportLoop(df, existing, sg, vm, Tail(cells), Tail(mxs))
             ELSE CsvImportLoop(LocSet(df, email, << >>, "import"),
                                existing \cup { Lower(email) }, sg, vm, Tail(cells), Tail(mxs))

CsvImportResult(df, sg, vm, cells, mxs) == CsvImportLoop(df, Lowers(df), sg, vm, cells, mxs)

\* "Save grid changes": the table is rebuilt from the editor's rows, with a fresh
\* RangeIndex; a row is kept when it passes the checks and its email is new.
RECURSIVE GridClean(_, _, _, _, _)
GridClean(kept, sg, vm, rows, mxs) ==
    IF rows = << >> THEN kept
    ELSE LET email == Strip(Head(rows).Email)
         IN  IF ~ FormAccepts(email, sg, vm, Head(mxs)) \/ Lower(email) \in Lowers(kept)
             THEN GridClean(kept, sg, vm, Tail(rows), Tail(mxs))
             ELSE GridClean(Append(kept, Row(Len(kept), email, Head(rows).Website, Head(rows).Source)),
                            sg, vm, Tail(rows), Tail(mxs))

SaveGridResult(sg, vm, edited, mxs) == GridClean(<< >>, sg, vm, edited, mxs)

\* "Remove selected": the boolean mask keeps the rows, and their index labels
RemoveSelectedResult(df, entries) ==
    LET emails_rm == { Lower(Strip(e)) : e \in { x \in entries : Strip(x) /= << >> } }
        Keep(r)   == Lower(r.Email) \notin emails_rm
    IN  SelectSeq(df, Keep)

----------------------------------------------------------------------------
(* The Search & Extract handler                                            *)

Max(a, b) == IF a >= b THEN a ELSE b

\* per_q = max(10, max_sites // max(len(queries), 1))
PerQuery(max_sites, nq) == Max(10, max_sites \div Max(nq, 1))

\* What a provider call returns: the raw result URLs, or Failed (no key, HTTP
\* error, bad JSON, timeout), which search_bing_api / search_serp_api turn into [].
Failed == << << "<Exception>" >> >>

SearchResult(resp, count) == IF resp = Failed THEN << >> ELSE SearchFilter(resp, count)

\* all_urls after the query loop over the responses, one per query
AllUrls(resps, count) == Concat([ i \in DOMAIN resps |-> SearchResult(resps[i], count) ])

\* A bug to compare with: the unlocker is tried whenever an endpoint is set.
UnlockerIfBase(c) == c.unlocker_base

\* extract_company_info lines 262-263 (and line 442): the unlocker is tried when
\* both the endpoint and the key are set
UsesUnlocker(c) == c.unlocker_base /\ c.unlocker_key

\* A bug to compare with: the exception of a failed GET is not caught.
extract_company_info_raising(c, uo, dr) ==
    LET tried == UsesUnlocker(c)
        html1 == IF tried THEN uo ELSE HtmlNone
        nu    == IF tried THEN 1 ELSE 0
    IN  IF ~ HtmlFalsy(html1)
        THEN [ email |-> ExtractEmail(html1), requests |-> nu, failed |-> FALSE, raised |-> FALSE ]
        ELSE IF dr.body = "fail"
        THEN [ email |-> None, requests |-> nu + 1, failed |-> TRUE, raised |-> TRUE ]
        ELSE [ email |-> ExtractEmail(dr), requests |-> nu + 1, failed |-> FALSE, raised |-> FALSE ]

\* extract_company_info(target): uo is what unlocker_fetch returns (HtmlNone on any
\* failure), dr what the direct GET does (DirectFail: an exception or a non-2xx status,
\* else the body).  requests counts the HTTP.get calls made (the retries the
\* session makes inside one call are not counted); failed says that no
\* body was obtained; raised that an exception left the function (never, here).
extract_company_info(c, uo, dr) ==
    LET tried == UsesUnlocker(c)
        html1 == IF tried THEN uo ELSE HtmlNone
        nu    == IF tried THEN 1 ELSE 0
    IN  IF ~ HtmlFalsy(html1)
        THEN [ email |-> ExtractEmail(html1), requests |-> nu, failed |-> FALSE, raised |-> FALSE ]
        ELSE IF dr.body = "fail"
        THEN [ email |-> None, requests |-> nu + 1, failed |-> TRUE, raised |-> FALSE ]
        ELSE [ email |-> ExtractEmail(dr), requests |-> nu + 1, failed |-> FALSE, raised |-> FALSE ]

\* The position of the two nested loops after the page at PATHS[pp] of site jj:
\* "break" when the page yielded an email, else the next suffix, else the next site.
NextPositionNoBreak(jj, pp, email) ==
    IF pp < Len(PATHS) THEN << jj, pp + 1 >> ELSE << jj + 1, 1 >>

\* A bug to compare with: a generic inbox does not count as a found email.
NextPositionUnlessGeneric(jj, pp, email) ==
    IF Truthy(email) /\ ~ is_generic_email(email) THEN << jj + 1, 1 >>
    ELSE IF pp < Len(PATHS) THEN << jj, pp + 1 >>
    ELSE << jj + 1, 1 >>

NextPosition(jj, pp, email) ==
    IF Truthy(email) THEN << jj + 1, 1 >>
    ELSE IF pp < Len(PATHS) THEN << jj, pp + 1 >>
    ELSE << jj + 1, 1 >>

\* time.sleep(rate_delay) after a page: only on the path that did not break
SleepsAfterPage(email, rate_delay) == ~ Truthy(email) /\ rate_delay > 0

SourceOf(c) == IF UsesUnlocker(c) THEN "serp+unlocker" ELSE "serp"

FreshSite == [ requests |-> 0, pages |-> << >>, yielded |-> 0 ]

NoRun == [ io |-> "none", page |-> "none" ]

\* the widgets as a new session shows them: no unlocker, a delay of 1.0 s
DefaultCfg == [ unlocker_base |-> FALSE, unlocker_key |-> FALSE, rate_delay |-> 10 ]


----------------------------------------------------------------------------
(* The search providers: what the HTTP call answers, and the URL lists     *)
(* search_bing_api / search_serp_api make of it                            *)

\* One element of a JSON array of the answer: a string ("str", its text in url),
\* an object ("obj", with its "url" and "link" members, << >> when absent or
\* empty), or anything else ("num").
Item(t, url, link) == [ t |-> t, url |-> url, link |-> link ]

\* The answer of the provider call: "error" (HTTP error status, timeout, a body
\* that is no JSON), or the parsed JSON: {"webPages": {"value": items}},
\* {"results": items}, a bare array of items, an object with neither member
\* ("other"), or a bare scalar.
Answer(kind, items) == [ kind |-> kind, items |-> items ]

AllObjects(items) == \A i \in DOMAIN items : items[i].t = "obj"

HasUrl(v) == Truthy(v.url)

UrlOf(v) == v.url

\* item.get("url") or item.get("link")
UrlOrLink(v) == IF Truthy(v.url) THEN v.url ELSE v.link

HasUrlOrLink(v) == Truthy(UrlOrLink(v))

\* for item in data: the strings as they are, the objects' url or link when
\* there is one, other elements skipped
ListUrls(items) ==
    LET Usable(v) == v.t = "str" \/ (v.t = "obj" /\ HasUrlOrLink(v))
        picked    == SelectSeq(items, Usable)
    IN  [ i \in DOMAIN picked |-> IF picked[i].t = "str" THEN picked[i].url ELSE UrlOrLink(picked[i]) ]

\* [raised, urls]: the urls list of search_bing_api before it is filtered, or the
\* exception raised on the way (requests / JSON error, .get on a value that is
\* no object)
BingUrls(a) ==
    IF a.kind \in { "error", "list", "scalar" } THEN [ raised |-> TRUE, urls |-> << >> ]
    ELSE IF a.kind = "webPages"
    THEN IF AllObjects(a.items)
         THEN LET kept == SelectSeq(a.items, HasUrl)
              IN  [ raised |-> FALSE, urls |-> [ i \in DOMAIN kept |-> UrlOf(kept[i]) ] ]
         ELSE [ raised |-> TRUE, urls |-> << >> ]
    ELSE [ raised |-> FALSE, urls |-> << >> ]

\* the same for search_serp_api, which also reads "results" and a bare array
SerpUrls(a) ==
    IF a.kind = "error" THEN [ raised |-> TRUE, urls |-> << >> ]
    ELSE IF a.kind = "webPages"
    THEN IF AllObjects(a.items)
         THEN LET kept == SelectSeq(a.items, HasUrl)
              IN  [ raised |-> FALSE, urls |-> [ i \in DOMAIN kept |-> UrlOf(kept[i]) ] ]
         ELSE [ raised |-> TRUE, urls |-> << >> ]
    ELSE IF a.kind = "results"
    THEN IF AllObjects(a.items)
         THEN LET kept == SelectSeq(a.items, HasUrlOrLink)
              IN  [ raised |-> FALSE, urls |-> [ i \in DOMAIN kept |-> UrlOrLink(kept[i]) ] ]
         ELSE [ raised |-> TRUE, urls |-> << >> ]
    ELSE IF a.kind = "list" THEN [ raised |-> FALSE, urls |-> ListUrls(a.items) ]
    ELSE [ raised |-> FALSE, urls |-> << >> ]

\* A bug to compare with: the list is returned as parsed, neither filtered nor cut.
search_serp_api_unfiltered(base_url, key, a, count) ==
    IF ~ base_url \/ ~ key THEN << >>
    ELSE IF SerpUrls(a).raised THEN << >>
    ELSE SerpUrls(a).urls

\* search_bing_api(query, key, count): key says that a key is set, a is the answer
search_bing_api(key, a, count) ==
    IF ~ key THEN << >>
    ELSE IF BingUrls(a).raised THEN << >>
    ELSE SearchFilter(BingUrls(a).urls, count)

\* search_serp_api(query, base_url, key, ..., count)
search_serp_api(base_url, key, a, count) ==
    IF ~ base_url \/ ~ key THEN << >>
    ELSE IF SerpUrls(a).raised THEN << >>
    ELSE SearchFilter(SerpUrls(a).urls, count)

\* one provider call of the query loop
ProviderCall(provider, base_url, key, a, count) ==
    IF provider = "bing" THEN search_bing_api(key, a, count)
    ELSE search_serp_api(base_url, key, a, count)

\* the call did not get a usable answer: no key / endpoint, or an exception inside
ProviderFailed(provider, base_url, key, a) ==
    IF provider = "bing" THEN ~ key \/ BingUrls(a).raised
    ELSE ~ base_url \/ ~ key \/ SerpUrls(a).raised

\* The query loop: one provider call per query, each with count = per_q.  The
\* result lists of the calls in order (all_urls is their concatenation), and
\* what the loop and the provider functions write to the page about the calls:
\* nothing, they have no st.warning / st.error.
QueryLoop(provider, base_url, key, answers, max_sites) ==
    LET per_q == PerQuery(max_sites, Len(answers))
    IN  [ res  |-> [ i \in DOMAIN answers |-> ProviderCall(provider, base_url, key, answers[i], per_q) ],
          msgs |-> << >> ]

----------------------------------------------------------------------------
(* Bounds and the inputs the environment can supply                        *)

\* rows the table may hold
MaxLeads == 2

\* lines of one paste / rows of one uploaded CSV
MaxRows == 2

\* sites in each of the two long provider responses
LongList == 11

\* "Max sites (total)": the slider goes from 10 to 200 in steps of 10
SliderMaxSites == { 10, 20 }

\* "Delay between requests (sec)", in tenths of a second
RateDelays == { 0, 10 }

\* what a user types into an email cell
TypedCells ==
    { <<"B","o","b","@","A","c","m","e",".","c","o","m">>,
      <<"s","a","l","e","s","@","a","c","m","e",".","c","o","m">>,
      <<" ","a","m","y","@","z","e","n",".","i","o">>,
      <<"n","o","p","e">> }

\* URLs are put together from their parts and parsed again by domain_of
MkUrl(scheme, www, host, path, query) == scheme \o << ":", "/", "/" >> \o www \o host \o path \o query

Schemes == { <<"h","t","t","p">>, <<"h","t","t","p","s">> }

WwwLabels == { << >>, WwwDot, <<"W","W","W",".">> }

UrlPaths == { << >>, <<"/","p","r","o","j","e","c","t","s">> }

UrlQueries == { << >>, <<"?","q","=","1">> }

HostAcmeBuilders == <<"a","c","m","e","-","b","u","i","l","d","e","r","s",".","c","o","m">>

HostAcmeNet == <<"a","c","m","e","b","u","i","l","d","e","r","s",".","n","e","t">>

HostFacebook == <<"f","a","c","e","b","o","o","k",".","c","o","m">>

HostBuildmax == <<"b","u","i","l","d","m","a","x",".","c","o","m">>

HostMaps == <<"m","a","p","s",".","g","o","o","g","l","e",".","c","o","m">>

HostBiz == <<"a","c","m","e",".","b","i","z">>

HostWwwAcme == <<"w","w","w",".","a","c","m","e",".","c","o","m">>

Hosts == { HostAcmeBuilders, HostAcmeNet, HostFacebook, HostBuildmax, HostMaps, HostBiz, HostWwwAcme }

UrlsOfHost(h) ==
    { MkUrl(s, w, h, pa, q) : s \in Schemes, w \in WwwLabels, pa \in UrlPaths, q \in UrlQueries }

\* strings with no host at all
HostlessUrls == { << >>, <<"a","c","m","e",".","c","o","m","/","c","o","n","t","a","c","t">>, <<"m","a","i","l","t","o",":","b","o","b","@","a","c","m","e",".","c","o","m">> }

UrlAcme == MkUrl(<<"h","t","t","p","s">>, << >>, HostAcmeBuilders, << "/" >>, << >>)

UrlAcmeWww == MkUrl(<<"h","t","t","p","s">>, WwwDot, HostAcmeBuilders, <<"/","p","r","o","j","e","c","t","s">>, << >>)

UrlNet == MkUrl(<<"h","t","t","p","s">>, << >>, HostAcmeNet, << >>, << >>)

UrlFacebook == MkUrl(<<"h","t","t","p","s">>, WwwDot, HostFacebook, <<"/","s","o","m","e","p","a","g","e">>, << >>)

SiteHost(i) == << LowerLetters[i] >> \o <<"s","i","t","e",".","c","o","m">>

SiteUrl(i) == MkUrl(<<"h","t","t","p","s">>, << >>, SiteHost(i), << >>, << >>)

ManySites(from, n) == [ i \in 1..n |-> SiteUrl(from + i - 1) ]

\* what a provider may answer to one query of a run
RunResponses == { Failed, << UrlAcme, UrlFacebook, UrlAcmeWww, UrlNet >> }

\* ... and the longer answers used to exercise the deduplicator
LongResponses ==
    { Failed, << UrlAcme, UrlAcmeWww >>, << UrlNet, UrlFacebook, UrlAcmeWww >>,
      ManySites(1, LongList), ManySites(LongList + 2, LongList) }


----------------------------------------------------------------------------
(* The session: state after the first script run, and one action per        *)
(* handler (the probe loop advances one page per step)                      *)

NoFx ==
    [ kind |-> "none", host |-> << >>, u1 |-> << >>, u2 |-> << >>, hits |-> << >>, max_sites |-> 0,
      d1 |-> << >>, d2 |-> << >>, biz |-> FALSE, out |-> << >>, done |-> {},
      provider |-> "none", base |-> FALSE, key |-> FALSE, answers |-> << >>, res |-> << >>, msgs |-> << >>,
      df |-> << >>, sg |-> FALSE, vm |-> FALSE, email |-> << >>, mx |-> "answer",
      up |-> << >>, csv |-> << >>, html |-> HtmlNone, em |-> None ]

IdleRun ==
    /\ pc = "idle"
    /\ urls = << >> /\ j = 1 /\ p = 1 /\ added = 0
    /\ site = FreshSite /\ last = NoRun

Init ==
    /\ leads = << >>
    /\ skip_generic = TRUE
    /\ verify_mx = TRUE
    /\ cfg = DefaultCfg
    /\ IdleRun
    /\ fx = NoFx

RunVars == << pc, urls, j, p, added, site, last >>

TableVars == << leads, skip_generic, verify_mx >>

\* the lookup is made only when the MX filter is on
MxChoices(vm) == IF vm THEN MxOutcomes ELSE { "answer" }

MxSeqs(vm, n) == [ 1..n -> MxChoices(vm) ]

CellSeqs == UNION { [ 1..n -> TypedCells ] : n \in 1..MaxRows }

\* sidebar checkboxes
SetSkipGeneric ==
    /\ pc = "idle"
    /\ skip_generic' = ~ skip_generic
    /\ UNCHANGED << leads, verify_mx, cfg, RunVars, fx >>

SetVerifyMx ==
    /\ pc = "idle"
    /\ verify_mx' = ~ verify_mx
    /\ UNCHANGED << leads, skip_generic, cfg, RunVars, fx >>

ManualAdd ==
    /\ pc = "idle"
    /\ \E c \in TypedCells, mx \in MxChoices(verify_mx) :
          leads' = ManualAddResult(leads, skip_generic, verify_mx, c, mx)
    /\ Len(leads') <= MaxLeads
    /\ UNCHANGED << skip_generic, verify_mx, cfg, RunVars, fx >>

BulkPaste ==
    /\ pc = "idle"
    /\ \E cells \in CellSeqs :
          \E mxs \in MxSeqs(verify_mx, Len(cells)) :
              leads' = BulkPasteResult(leads, skip_generic, verify_mx, cells, mxs)
    /\ Len(leads') <= MaxLeads
    /\ UNCHANGED << skip_generic, verify_mx, cfg, RunVars, fx >>

CsvImport ==
    /\ pc = "idle"
    /\ \E cells \in CellSeqs :
          \E mxs \in MxSeqs(verify_mx, Len(cells)) :
              leads' = CsvImportResult(leads, skip_generic, verify_mx, cells, mxs)
    /\ Len(leads') <= MaxLeads
    /\ UNCHANGED << skip_generic, verify_mx, cfg, RunVars, fx >>

\* what the data editor can hold when "Save grid changes" is pressed: the table
\* as shown, with one cell retyped, one row added, or one row deleted
GridEdits(df) ==
    { df }
    \cup { [ df EXCEPT ![i].Email = c ] : i \in DOMAIN df, c \in TypedCells }
    \cup { Append(df, Row(Len(df), c, << >>, "manual")) : c \in TypedCells }
    \cup { SubSeq(df, 1, i - 1) \o SubSeq(df, i + 1, Len(df)) : i \in DOMAIN df }

SaveGrid ==
    /\ pc = "idle"
    /\ \E edited \in GridEdits(leads) :
          \E mxs \in MxSeqs(verify_mx, Len(edited)) :
              leads' = SaveGridResult(skip_generic, verify_mx, edited, mxs)
    /\ Len(leads') <= MaxLeads
    /\ UNCHANGED << skip_generic, verify_mx, cfg, RunVars, fx >>

\* the buttons are shown only for a table that is not empty
RemoveSelected ==
    /\ pc = "idle"
    /\ leads /= << >>
    /\ \E entries \in (SUBSET TypedCells) \ { {} } :
          /\ Cardinality(entries) <= 2
          /\ leads' = RemoveSelectedResult(leads, entries)
    /\ UNCHANGED << skip_generic, verify_mx, cfg, RunVars, fx >>

ClearAll ==
    /\ pc = "idle"
    /\ leads /= << >>
    /\ leads' = << >>
    /\ UNCHANGED << skip_generic, verify_mx, cfg, RunVars, fx >>

\* sidebar "Unlocker (optional)": endpoint and key, set or blank
SetUnlocker ==
    /\ pc = "idle"
    /\ \E ub \in BOOLEAN, uk \in BOOLEAN :
          /\ << ub, uk >> /= << cfg.unlocker_base, cfg.unlocker_key >>
          /\ cfg' = [ cfg EXCEPT !.unlocker_base = ub, !.unlocker_key = uk ]
    /\ UNCHANGED << TableVars, RunVars, fx >>

\* "Delay between requests (sec)"
SetRateDelay ==
    /\ pc = "idle"
    /\ \E rd \in RateDelays \ { cfg.rate_delay } : cfg' = [ cfg EXCEPT !.rate_delay = rd ]
    /\ UNCHANGED << TableVars, RunVars, fx >>

\* "Search & Extract", up to the probe loop: the queries of the selected
\* categories, their provider calls, the deduplication
SearchStart ==
    /\ pc = "idle"
    /\ \E nq \in 0..3, max_sites \in SliderMaxSites :
          \E resps \in [ 1..nq -> RunResponses ] :
              /\ urls' = Dedup(AllUrls(resps, PerQuery(max_sites, nq)), max_sites)
              /\ last' = [ io   |-> IF nq = 0 THEN "none"
                                    ELSE IF cfg.rate_delay > 0 THEN "sleep" ELSE "query",
                           page |-> "none" ]
    /\ pc' = "probe"
    /\ j' = 1 /\ p' = 1 /\ added' = 0
    /\ site' = FreshSite
    /\ UNCHANGED << leads, skip_generic, verify_mx, cfg, fx >>

\* one iteration of the inner loop: the page PATHS[p] of site urls[j]
ProbePage ==
    /\ pc = "probe"
    /\ j <= Len(urls)
    /\ \E uo \in (IF UsesUnlocker(cfg) THEN UnlockerOutcomes ELSE { HtmlNone }) :
        \E dr \in (IF UsesUnlocker(cfg) /\ ~ HtmlFalsy(uo) THEN { DirectFail } ELSE DirectOutcomes) :
          LET r    == extract_company_info(cfg, uo, dr)
              hit  == Truthy(r.email)
              pos  == NextPosition(j, p, r.email)
              from == IF p = 1 THEN FreshSite ELSE site
          IN  /\ site' = [ requests |-> from.requests + r.requests,
                           pages    |-> Append(from.pages, PATHS[p]),
                           yielded  |-> IF hit THEN p ELSE from.yielded ]
              /\ IF r.raised
                 THEN \* except Exception as e: st.exception(e)
                      /\ pc' = "idle"
                      /\ last' = [ io |-> "fetch", page |-> "failed" ]
                      /\ UNCHANGED << leads, j, p, added >>
                 ELSE /\ pc' = "probe"
                      /\ \E mx \in (IF hit THEN MxChoices(verify_mx) ELSE { "answer" }) :
                            leads' = IF hit
                                     THEN upsert_lead(leads, skip_generic, verify_mx, r.email,
                                                      urls[j], SourceOf(cfg), mx)
                                     ELSE leads
                      /\ added' = IF hit THEN added + 1 ELSE added
                      /\ j' = pos[1]
                      /\ p' = pos[2]
                      /\ last' = [ io   |-> IF SleepsAfterPage(r.email, cfg.rate_delay)
                                            THEN "sleep" ELSE "fetch",
                                   page |-> IF r.failed THEN "failed"
                                            ELSE IF hit THEN "email" ELSE "noemail" ]
    /\ Len(leads') <= MaxLeads
    /\ UNCHANGED << skip_generic, verify_mx, cfg, urls, fx >>

\* the loops are over: st.success(f"Added {added} contacts ...")
Finish ==
    /\ pc = "probe"
    /\ j > Len(urls)
    /\ pc' = "idle"
    /\ urls' = << >> /\ j' = 1 /\ p' = 1 /\ added' = 0
    /\ site' = FreshSite /\ last' = NoRun
    /\ UNCHANGED << leads, skip_generic, verify_mx, cfg, fx >>

\* The session with the search widgets left at their defaults: the table
\* operations, the two filter checkboxes, and search runs.
Next ==
    \/ SetSkipGeneric
    \/ SetVerifyMx
    \/ ManualAdd
    \/ BulkPaste
    \/ CsvImport
    \/ SaveGrid
    \/ RemoveSelected
    \/ ClearAll
    \/ SearchStart
    \/ ProbePage
    \/ Finish

Spec == Init /\ [][Next]_vars

\* The search run on its own: the unlocker and delay widgets are set, and a
\* search is started on the empty table of a new session.
NextProbe ==
    \/ SetUnlocker
    \/ SetRateDelay
    \/ (SearchStart /\ leads = << >>)
    \/ ProbePage
    \/ Finish

SpecProbe == Init /\ [][NextProbe]_vars

----------------------------------------------------------------------------
(* The URL helpers on their own: the inputs are drawn in InitUrl, each       *)
(* action applies one helper to them                                        *)

\* two URLs written for the same host: they differ at most by scheme, a leading
\* www. label, path and query string; and the strings that have no host
PairInputs ==
    UNION { { [ NoFx EXCEPT !.kind = "pair", !.host = h, !.u1 = a, !.u2 = b ] :
                a \in UrlsOfHost(h), b \in UrlsOfHost(h) } : h \in Hosts }
    \cup { [ NoFx EXCEPT !.kind = "pair", !.u1 = x, !.u2 = x ] : x \in HostlessUrls }

\* all_urls as the query loop builds it from one provider response per query
HitInputs ==
    UNION { { [ NoFx EXCEPT !.kind = "hits", !.max_sites = m,
                            !.hits = AllUrls(resps, PerQuery(m, nq)) ] :
                resps \in [ 1..nq -> LongResponses ] } :
            nq \in 1..3, m \in SliderMaxSites }

InitUrl ==
    /\ leads = << >>
    /\ skip_generic = TRUE
    /\ verify_mx = TRUE
    /\ cfg = DefaultCfg
    /\ IdleRun
    /\ fx \in PairInputs \cup HitInputs

ApplyDomainOf ==
    /\ fx.kind = "pair"
    /\ "domain_of" \notin fx.done
    /\ fx' = [ fx EXCEPT !.d1 = domain_of(fx.u1), !.d2 = domain_of(fx.u2),
                         !.done = @ \cup { "domain_of" } ]
    /\ UNCHANGED << TableVars, cfg, RunVars >>

ApplyClassifier ==
    /\ fx.kind = "pair"
    /\ "classifier" \notin fx.done
    /\ fx' = [ fx EXCEPT !.biz = looks_like_business_site(fx.u1),
                         !.done = @ \cup { "classifier" } ]
    /\ UNCHANGED << TableVars, cfg, RunVars >>

ApplyDedup ==
    /\ fx.kind = "hits"
    /\ "dedup" \notin fx.done
    /\ fx' = [ fx EXCEPT !.out = Dedup(fx.hits, fx.max_sites), !.done = @ \cup { "dedup" } ]
    /\ UNCHANGED << TableVars, cfg, RunVars >>

NextUrl ==
    \/ ApplyDomainOf
    \/ ApplyClassifier
    \/ ApplyDedup

SpecUrl == InitUrl /\ [][NextUrl]_vars

----------------------------------------------------------------------------
(* The query phase on its own: the provider settings and one answer per     *)
(* query are drawn in InitSearch                                            *)

ObjUrl(u) == Item("obj", u, << >>)

ObjLink(u) == Item("obj", << >>, u)

StrItem(u) == Item("str", u, << >>)

\* objects with url or link, one of them blocklisted, one with neither member
ItemsObjects == << ObjUrl(UrlAcme), ObjLink(UrlNet), ObjUrl(UrlFacebook), Item("obj", << >>, << >>) >>

\* strings, an empty string, a number and an object
ItemsMixed == << StrItem(UrlAcme), StrItem(UrlFacebook), StrItem(<< >>), Item("num", << >>, << >>), ObjLink(UrlNet) >>

\* more business sites than per_q allows
ItemsLong == [ i \in 1..LongList |-> ObjUrl(SiteUrl(i)) ]

ItemSeqs == { << >>, ItemsObjects, ItemsMixed, ItemsLong }

Answers ==
    { Answer("error", << >>), Answer("other", << >>), Answer("scalar", << >>) }
    \cup { Answer(k, items) : k \in { "webPages", "results", "list" }, items \in ItemSeqs }

ProviderSettings ==
    { [ provider |-> "bing", base |-> FALSE, key |-> k ] : k \in BOOLEAN }
    \cup { [ provider |-> "serp", base |-> b, key |-> k ] : b \in BOOLEAN, k \in BOOLEAN }

SearchInputs ==
    UNION { { [ NoFx EXCEPT !.kind = "search", !.provider = s.provider, !.base = s.base,
                            !.key = s.key, !.answers = as, !.max_sites = m ] :
                s \in ProviderSettings, as \in [ 1..nq -> Answers ] } :
            nq \in 1..2, m \in SliderMaxSites }

InitSearch ==
    /\ leads = << >>
    /\ skip_generic = TRUE
    /\ verify_mx = TRUE
    /\ cfg = DefaultCfg
    /\ IdleRun
    /\ fx \in SearchInputs

\* the query loop of "Search & Extract"
ApplyQueryLoop ==
    /\ fx.kind = "search"
    /\ "queries" \notin fx.done
    /\ LET r == QueryLoop(fx.provider, fx.base, fx.key, fx.answers, fx.max_sites)
       IN  fx' = [ fx EXCEPT !.res = r.res, !.msgs = r.msgs, !.hits = Concat(r.res),
                             !.done = @ \cup { "queries" } ]
    /\ UNCHANGED << TableVars, cfg, RunVars >>

\* ... and the deduplication that follows it
ApplyCandidates ==
    /\ fx.kind = "search"
    /\ "queries" \in fx.done
    /\ "dedup" \notin fx.done
    /\ fx' = [ fx EXCEPT !.out = Dedup(fx.hits, fx.max_sites), !.done = @ \cup { "dedup" } ]
    /\ UNCHANGED << TableVars, cfg, RunVars >>

NextSearch ==
    \/ ApplyQueryLoop
    \/ ApplyCandidates

SpecSearch == InitSearch /\ [][NextSearch]_vars

----------------------------------------------------------------------------
(* upsert_lead and the CSV import on their own: the table, the two filter   *)
(* settings, the candidate email and the outcome of its MX lookup are drawn *)
(* in InitUpsert                                                            *)

\* what a caller can hand to upsert_lead as email, or a CSV hold in its Email column
CandidateEmails ==
    { <<"i","n","f","o","@","a","c","m","e",".","c","o","m">>,
      <<"I","N","F","O","@","A","c","m","e",".","c","o","m">>,
      <<"S","a","l","e","s","@","A","c","m","e",".","c","o","m">>,
      <<"b","o","b","@","a","c","m","e",".","c","o","m">>,
      <<"B","O","B","@","A","C","M","E",".","C","O","M">>,
      <<"a","m","y","@","z","e","n",".","i","o">>,
      <<" ","a","m","y","@","z","e","n",".","i","o">>,
      <<"b","o","b","@","a","c","m","e",".","c","o","m"," ">>,
      <<"b","o","b","@","a","c","m","e",".","c","o","m",",","a","m","y","@","a","c","m","e",".","c","o","m">>,
      <<"n","o","p","e">>,
      <<>> }

\* tables the session can hold: empty, one row, two rows, and the one row that
\* is left with index label 1 after "Remove selected" took the first of two
TablePool ==
    { << >>,
      << Row(0, <<"B","o","b","@","A","c","m","e",".","c","o","m">>, << >>, "manual") >>,
      << Row(0, <<"a","m","y","@","z","e","n",".","i","o">>, << >>, "manual"), Row(1, <<"i","n","f","o","@","a","c","m","e",".","c","o","m">>, << >>, "manual") >>,
      << Row(1, <<"B","o","b","@","A","c","m","e",".","c","o","m">>, << >>, "manual") >> }

UpsertInputs ==
    { [ NoFx EXCEPT !.kind = "upsert", !.df = df, !.sg = sg, !.vm = vm, !.email = e, !.mx = mx ] :
        df \in TablePool, sg \in BOOLEAN, vm \in BOOLEAN, e \in CandidateEmails, mx \in MxOutcomes }

InitUpsert ==
    /\ leads = << >>
    /\ skip_generic = TRUE
    /\ verify_mx = TRUE
    /\ cfg = DefaultCfg
    /\ IdleRun
    /\ fx \in UpsertInputs

\* upsert_lead(name, email, base, phone, source="serp") as the probe loop calls it
ApplyUpsert ==
    /\ fx.kind = "upsert"
    /\ "upsert" \notin fx.done
    /\ fx' = [ fx EXCEPT !.up = upsert_lead(fx.df, fx.sg, fx.vm, fx.email, UrlAcme, "serp", fx.mx),
                         !.done = @ \cup { "upsert" } ]
    /\ UNCHANGED << TableVars, cfg, RunVars >>

\* the import of a CSV with one row, whose Email cell is the candidate
ApplyCsvImport ==
    /\ fx.kind = "upsert"
    /\ "csv" \notin fx.done
    /\ fx' = [ fx EXCEPT !.csv = CsvImportResult(fx.df, fx.sg, fx.vm, << fx.email >>, << fx.mx >>),
                         !.done = @ \cup { "csv" } ]
    /\ UNCHANGED << TableVars, cfg, RunVars >>

NextUpsert ==
    \/ ApplyUpsert
    \/ ApplyCsvImport

SpecUpsert == InitUpsert /\ [][NextUpsert]_vars

----------------------------------------------------------------------------
(* The contact extractor on its own: the page is drawn in InitExtract       *)

\* href attributes a page can carry
PageHrefs ==
    { <<"m","a","i","l","t","o",":","t","e","s","t","@","e","x","a","m","p","l","e",".","c","o","m">>,
      <<"m","a","i","l","t","o",":","b","o","b","@","a","c","m","e",".","c","o","m">>,
      <<"m","a","i","l","t","o",":","l","o","g","o","@","2","x",".","p","n","g">>,
      <<"m","a","i","l","t","o",":","I","n","f","o","@","E","x","a","m","p","l","e",".","c","o","m">>,
      <<"m","a","i","l","t","o",":","t","e","s","t","@","a","c","m","e",".","c","o","m">>,
      <<"/","c","o","n","t","a","c","t">> }

\* visible text a page can carry
PageTexts ==
    { <<>>,
      <<"w","r","i","t","e"," ","a","m","y","@","z","e","n",".","i","o",".">>,
      <<"i","m","g"," ","h","e","r","o","@","2","x",".","p","n","g"," ","o","r"," ","j","o","@","z","e","n",".","i","o">> }

\* pages with up to two links
PagePool ==
    { Page(hs, tx) : hs \in UNION { [ 1..n -> PageHrefs ] : n \in 0..2 }, tx \in PageTexts }

ExtractInputs == { [ NoFx EXCEPT !.kind = "extract", !.html = h ] : h \in PagePool \cup { HtmlNone, HtmlEmpty } }

InitExtract ==
    /\ leads = << >>
    /\ skip_generic = TRUE
    /\ verify_mx = TRUE
    /\ cfg = DefaultCfg
    /\ IdleRun
    /\ fx \in ExtractInputs

ApplyExtract ==
    /\ fx.kind = "extract"
    /\ "extract" \notin fx.done
    /\ fx' = [ fx EXCEPT !.em = extract_company_info_from_html(fx.html), !.done = @ \cup { "extract" } ]
    /\ UNCHANGED << TableVars, cfg, RunVars >>

NextExtract == ApplyExtract

SpecExtract == InitExtract /\ [][NextExtract]_vars

----------------------------------------------------------------------------
(* Properties                                                              *)

\* C1: after any sequence of lead-set operations no two rows of the lead set have
\* emails that are equal when compared case-insensitively.
C1_EmailsUnique ==
    \A i \in DOMAIN leads : \A k \in DOMAIN leads :
        i /= k => Lower(leads[i].Email) /= Lower(leads[k].Email)

\* a step that calls upsert_lead or runs the CSV-import insert
InsertStep ==
    \/ pc = "probe" /\ pc' = "probe"
    \/ ManualAdd
    \/ BulkPaste
    \/ CsvImport

\* C2: upsert_lead and the CSV-import insert never update, overwrite or remove a
\* row that is already in the lead set: every row present before the call is
\* present and unchanged after it, and the set changes only by growing.
C2_ExistingRowsKept ==
    [][ \/ /\ \A i \in DOMAIN leads : \E k \in DOMAIN leads' : Cells(leads'[k]) = Cells(leads[i])
           /\ leads' /= leads => Len(leads') > Len(leads)
        \/ ~ InsertStep ]_vars

FromSearchRun(r) == r.Source \in { "serp", "serp+unlocker" }

\* C3: every Lead in the lead set that was reached through a search run has a
\* non-empty email that is, in its entirety, a syntactically valid address.
C3_SearchEmailsValid ==
    \A i \in DOMAIN leads :
        FromSearchRun(leads[i]) =>
            /\ Truthy(leads[i].Email)
            /\ EmailEndAt(leads[i].Email, 1) = Len(leads[i].Email)

\* C4: for each candidate site the pages are requested in the fixed order of the
\* suffix list, and the page that yields an email is the last page requested
\* for that site.
C4_StopsAtFirstEmail ==
    /\ Len(site.pages) <= Len(PATHS)
    /\ site.pages = SubSeq(PATHS, 1, Len(site.pages))
    /\ site.yielded /= 0 => site.yielded = Len(site.pages)

\* C4 witness: only /contact yielded an email, and the run has gone on to the
\* next site with two pages requested for the first.
C4_Witness ==
    /\ pc = "probe" /\ j = 2 /\ p = 1
    /\ site.yielded = 2
    /\ site.pages = << PATHS[1], PATHS[2] >>
    /\ last.page = "email"

\* C5: a page fetch that fails counts as no contact on that page: the run goes
\* on with the next suffix of the same site, or with the next site after the
\* last suffix, adds no lead, and a run ends only when every site was probed.
C5_FetchFailureNotFatal ==
    [][ /\ (pc = "probe" /\ last'.page = "failed") =>
            /\ pc' = "probe"
            /\ leads' = leads
            /\ << j', p' >> = IF p < Len(PATHS) THEN << j, p + 1 >> ELSE << j + 1, 1 >>
        /\ (pc = "probe" /\ pc' = "idle") => j > Len(urls) ]_vars

\* C5 witness: every page of the first site failed and the run is at the second.
C5_Witness ==
    /\ pc = "probe" /\ j = 2 /\ p = 1 /\ Len(urls) >= 2
    /\ last.page = "failed"
    /\ Len(site.pages) = Len(PATHS)
    /\ site.yielded = 0

\* C6 as stated: probing one candidate site issues at most len(pageSuffixes)
\* fetch requests in total, whatever the configuration.
C6_AtMostSevenRequests == site.requests <= Len(PATHS)

\* C6 amended: at most len(pageSuffixes) pages are requested per site; that takes
\* at most len(pageSuffixes) requests unless both the unlocker endpoint and its key
\* are set, and at most twice as many when they are.
C6_RequestsBounded ==
    /\ Len(site.pages) <= Len(PATHS)
    /\ site.requests <= 2 * Len(site.pages)
    /\ ~ (cfg.unlocker_base /\ cfg.unlocker_key) => site.requests <= Len(site.pages)

\* C6 witness: the unlocker is configured and returned no HTML for all seven pages.
C6_Witness ==
    /\ cfg.unlocker_base /\ cfg.unlocker_key
    /\ Len(site.pages) = Len(PATHS)
    /\ site.requests = 2 * Len(PATHS)

\* C7: with a request delay greater than zero, every page fetch of a run that
\* follows another page fetch is preceded by a delay.
C7_DelayBetweenFetches ==
    [][ ( /\ pc = "probe" /\ pc' = "probe"
          /\ << j', p' >> /= << j, p >>
          /\ cfg.rate_delay > 0
          /\ last.page /= "none" ) => last.io = "sleep" ]_vars

\* the first position of each domain key in a list of URLs
FirstIndex(hits, key) == CHOOSE m \in DOMAIN hits :
    /\ DedupKey(hits[m]) = key
    /\ \A n \in 1..(m - 1) : DedupKey(hits[n]) /= key

\* C8: deduplication keeps at most one URL per domain_of, the URL kept for a
\* domain is the first one seen for it, the output is in first-seen order, and
\* it has at most max_sites entries.
C8_DedupFirstSeen ==
    "dedup" \in fx.done =>
        /\ Len(fx.out) <= fx.max_sites
        /\ \A i \in DOMAIN fx.out : \A k \in DOMAIN fx.out :
              i /= k => domain_of(fx.out[i]) /= domain_of(fx.out[k])
        /\ \A i \in DOMAIN fx.out :
              /\ \E m \in DOMAIN fx.hits : DedupKey(fx.hits[m]) = DedupKey(fx.out[i])
              /\ fx.out[i] = fx.hits[FirstIndex(fx.hits, DedupKey(fx.out[i]))]
        /\ \A i \in DOMAIN fx.out : \A k \in DOMAIN fx.out :
              i < k => FirstIndex(fx.hits, DedupKey(fx.out[i])) < FirstIndex(fx.hits, DedupKey(fx.out[k]))

\* C8 witness: the two acme-builders.com URLs are among the hits, only the first
\* is kept, and the hits hold more domains than max_sites, so the cut applies.
C8_Witness ==
    /\ "dedup" \in fx.done
    /\ \E m \in DOMAIN fx.hits : \E n \in DOMAIN fx.hits :
          m < n /\ fx.hits[m] = UrlAcme /\ fx.hits[n] = UrlAcmeWww
    /\ \E i \in DOMAIN fx.out : fx.out[i] = UrlAcme
    /\ \A i \in DOMAIN fx.out : fx.out[i] /= UrlAcmeWww
    /\ Cardinality({ DedupKey(fx.hits[m]) : m \in DOMAIN fx.hits }) > fx.max_sites
    /\ Len(fx.out) = fx.max_sites

\* d is a listed host or a subdomain of one
OnBlocklist(d, list) ==
    \E i \in DOMAIN list : d = list[i] \/ EndsWith(d, << "." >> \o list[i])

\* the classification rules as C9 words them
ListedRules(u) ==
    LET d == domain_of(u)
    IN  /\ d /= << >>
        /\ ~ OnBlocklist(d, SOCIAL_AGG_DOMAINS)
        /\ ~ OnBlocklist(d, EXCLUDE_DOMAINS)
        /\ \E i \in DOMAIN BUSINESS_TLDS : EndsWith(d, BUSINESS_TLDS[i])

\* C9: looks_like_business_site(u) is true exactly when the domain of u is
\* non-empty, is no host or subdomain of a host on either blocklist, and ends
\* in one of the allowed top-level suffixes.
C9_ClassifierRules ==
    "classifier" \in fx.done => (fx.biz <=> ListedRules(fx.u1))

C11_ProviderFailureSoft ==
    "queries" \in fx.done =>
        /\ Len(fx.res) = Len(fx.answers)
        /\ \A q \in DOMAIN fx.answers :
              ProviderFailed(fx.provider, fx.base, fx.key, fx.answers[q]) =>
                  /\ fx.res[q] = << >>
                  /\ fx.msgs /= << >>

\* C12: for every response shape the list a provider call returns has at most
\* count (per_q) entries and every URL in it satisfies looks_like_business_site;
\* so does every candidate site left after deduplication.
C12_ResultsFilteredAndCapped ==
    /\ "queries" \in fx.done =>
          \A q \in DOMAIN fx.res :
              /\ Len(fx.res[q]) <= PerQuery(fx.max_sites, Len(fx.answers))
              /\ \A i \in DOMAIN fx.res[q] : looks_like_business_site(fx.res[q][i])
    /\ "dedup" \in fx.done =>
          \A i \in DOMAIN fx.out : looks_like_business_site(fx.out[i])

\* C12 witness: a webPages answer with more sites than per_q, cut to per_q, and a
\* bare array from which the blocklisted and the empty entries were dropped.
C12_Witness ==
    /\ "dedup" \in fx.done
    /\ fx.provider = "serp" /\ fx.base /\ fx.key
    /\ fx.answers = << Answer("webPages", ItemsLong), Answer("list", ItemsMixed) >>
    /\ Len(ItemsLong) > PerQuery(fx.max_sites, 2)
    /\ Len(fx.res[1]) = PerQuery(fx.max_sites, 2)
    /\ fx.res[2] = << UrlAcme, UrlNet >>
    /\ Len(fx.out) = fx.max_sites

\* the row upsert_lead writes for an accepted email is in the new table
Inserted(before, after, email) ==
    /\ after /= before
    /\ \E k \in DOMAIN after : after[k].Email = Strip(email) /\ after[k].Source = "serp"

HasDomain(email) == "@" \in Range(email)

\* C13: with MX verification on, an email whose domain resolves to no MX answer
\* is rejected and one whose lookup itself fails is treated as if the check
\* were off; with MX verification off no lookup outcome causes a rejection: the
\* email is inserted whenever the other rules (non-empty, generic-inbox filter,
\* duplicate) let it pass.
C13_MxFailOpen ==
    "upsert" \in fx.done =>
        /\ (fx.vm /\ fx.mx = "none" /\ HasDomain(fx.email)) => fx.up = fx.df
        /\ ( /\ ~ fx.vm \/ fx.mx = "error"
             /\ Truthy(fx.email)
             /\ ~ (fx.sg /\ is_generic_email(fx.email))
             /\ Lower(fx.email) \notin Lowers(fx.df) ) => Inserted(fx.df, fx.up, fx.email)

\* C13 witness: MX verification on, the lookup failed, and the email was inserted.
C13_Witness ==
    /\ "upsert" \in fx.done
    /\ fx.vm /\ fx.mx = "error"
    /\ fx.email = <<"b","o","b","@","a","c","m","e",".","c","o","m">>
    /\ fx.df = << >>
    /\ fx.up = << Row(0, fx.email, UrlAcme, "serp") >>

\* the generic inboxes as C14 lists them
ListedInboxes ==
    { <<"i","n","f","o">>,
      <<"c","o","n","t","a","c","t">>,
      <<"s","a","l","e","s">>,
      <<"h","e","l","l","o">>,
      <<"a","d","m","i","n">>,
      <<"s","u","p","p","o","r","t">>,
      <<"o","f","f","i","c","e">>,
      <<"t","e","a","m">> }

\* C14: with the generic-inbox filter on, an email whose local part, in lower
\* case, is a listed inbox is rejected; with the filter off the same email is
\* inserted when it passes the MX rule and is not yet in the table.
C14_GenericInboxFilter ==
    ("upsert" \in fx.done /\ HasDomain(fx.email)
        /\ Lower(BeforeChar(fx.email, "@")) \in ListedInboxes) =>
        /\ fx.sg => fx.up = fx.df
        /\ ( /\ ~ fx.sg
             /\ ~ fx.vm \/ verify_email_mx(fx.email, fx.mx)
             /\ Lower(fx.email) \notin Lowers(fx.df) ) => Inserted(fx.df, fx.up, fx.email)

\* C14 witness: INFO@Acme.com meets an empty table with the filter on, the MX
\* lookup answers, and nothing is inserted.
C14_Witness ==
    /\ "upsert" \in fx.done
    /\ fx.sg /\ fx.mx = "answer"
    /\ fx.email = <<"I","N","F","O","@","A","c","m","e",".","c","o","m">>
    /\ fx.df = << >>
    /\ fx.up = << >>

EmailsOf(df) == { df[i].Email : i \in DOMAIN df }

\* C15: importing a one-row CSV with an email and calling upsert_lead with it
\* make the same accept / reject decision and leave tables with the same emails.
C15_CsvImportAsUpsert ==
    ("upsert" \in fx.done /\ "csv" \in fx.done) =>
        /\ (fx.up = fx.df) <=> (fx.csv = fx.df)
        /\ EmailsOf(fx.up) = EmailsOf(fx.csv)

\* the markers of a placeholder or image-file address
ImageExtensions ==
    { <<".","p","n","g">>,
      <<".","j","p","g">>,
      <<".","j","p","e","g">>,
      <<".","g","i","f">>,
      <<".","s","v","g">>,
      <<".","w","e","b","p">> }

Noisy(e) ==
    \/ Contains(Lower(e), <<"e","x","a","m","p","l","e",".","c","o","m">>)
    \/ Contains(Lower(e), <<"t","e","s","t","@">>)
    \/ \E x \in ImageExtensions : EndsWith(Lower(e), x)

\* the first address of the page that carries no marker: mail links first, then
\* the addresses in the text
FirstClean(html) ==
    LET NotNoisy(e) == ~ Noisy(e)
        links == SelectSeq(MailtoEmails(html.hrefs), NotNoisy)
        texts == SelectSeq(EmailFindAll(html.text), NotNoisy)
    IN  IF HtmlFalsy(html) THEN None
        ELSE IF Truthy(first_non_empty(links)) THEN first_non_empty(links)
        ELSE first_non_empty(texts)

\* C17: the extractor never returns an email with a placeholder or image-file
\* marker (example.com, test@, an image extension): such addresses are skipped
\* and the next candidate address of the page is returned instead.
C17_NoiseFiltered ==
    "extract" \in fx.done =>
        /\ Truthy(fx.em) => ~ Noisy(fx.em)
        /\ fx.em = FirstClean(fx.html)

\* C16: at the end of a search run the number of contacts reported as added
\* equals the number of rows the run inserted (a run of this specification
\* starts from an empty table, so that number is the length of the table).
C16_AddedCountsInserted ==
    (pc = "probe" /\ j > Len(urls)) => added = Len(leads)

LeadsOfSite(df, u) == { k \in DOMAIN df : df[k].Website = u /\ FromSearchRun(df[k]) }

\* C18: in a search run each candidate site contributes at most one Lead, and
\* the probing of a site ends with the page that yields an email whether or not
\* upsert_lead accepted it: the run goes on with the next site and never comes
\* back, so a rejected email leaves the site without a Lead.
C18_OneLeadPerSite ==
    [][ (pc = "probe" /\ pc' = "probe") =>
          /\ \A i \in DOMAIN urls' : Cardinality(LeadsOfSite(leads', urls'[i])) <= 1
          /\ j' >= j
          /\ last'.page = "email" => (j' = j + 1 /\ p' = 1)
          /\ leads' /= leads => (last'.page = "email" /\ Len(leads') = Len(leads) + 1)
          /\ \A i \in DOMAIN urls : i >= j' => LeadsOfSite(leads', urls[i]) = {} ]_vars

\* C18 witness: the root page of the first site yielded an email, upsert_lead
\* rejected it, and the run is at the second site with the table still empty.
C18_Witness ==
    /\ pc = "probe" /\ j = 2 /\ p = 1 /\ Len(urls) >= 2
    /\ site.yielded = 1
    /\ last.page = "email"
    /\ added = 1
    /\ leads = << >>
====
